---------------------------- MODULE Spec2Model ----------------------------
(***************************************************************************)
(* Model of solve_Rota (src/app.py): the request loop that compiles user   *)
(* requests into hard rules, the hard constraints and the objective of the *)
(* CP-SAT model, the backend's answer (status and valuation) and the       *)
(* extraction of the returned data frame.                                  *)
(*                                                                         *)
(* Units.  Hours (shift durations, max_hours, daily budgets) are integers  *)
(* counting hundredths of an hour, so 7.5 h is 750; the code's             *)
(* int(x * 10) is then x \div 10 (truncation to tenths).                   *)
(* Dates are day numbers counted from 2026-02-01 (a Sunday); strftime is   *)
(* modelled by the strings it prints for the days of February and March    *)
(* 2026.  An employee is identified by its position in staff_list (TinyDB  *)
(* doc ids are unique per record).  A string that holds " | " separators   *)
(* is kept as the sequence of the pieces split(" | ") returns.             *)
(***************************************************************************)
EXTENDS Integers, Sequences, FiniteSets, TLC

VARIABLES
    staff_list,            \* argument: sequence of staff records
    num_days,              \* argument
    closing_shift_counts,  \* argument: 7 values
    daily_budgets,         \* argument: 7 values (hundredths of an hour)
    start_date,            \* argument: day number of the first day
    requests_list,         \* argument: sequence of request records
    pc,                    \* position in solve_Rota
    req_i,                 \* index of the next request of the loop at line 147
    forceOff,              \* <<employee, day>>: sum of the day's variables == 0 was added
    forceOn,               \* <<employee, day, shift>>: variable == 1 was added
    status,                \* what solver.Solve returned
    value,                 \* solver.Value: value[d + 1][i] = shifts of employee i on day d
    result                 \* what solve_Rota returned

vars == <<staff_list, num_days, closing_shift_counts, daily_budgets, start_date,
          requests_list, pc, req_i, forceOff, forceOn, status, value, result>>

inputs == <<staff_list, num_days, closing_shift_counts, daily_budgets, start_date,
            requests_list>>

-----------------------------------------------------------------------------
(* Definitions, lines 102-119 *)

SHIFT_INDICES == 0 .. 4

FLEX_SHIFTS == {3, 4}

SHIFT_HOURS == <<750, 850, 800, 400, 400>>      \* indexed by shift + 1

IntTimes10(x) == x \div 10

SHIFT_HOURS_SCALED == [sh \in SHIFT_INDICES |-> IntTimes10(SHIFT_HOURS[sh + 1])]

SHIFT_CODES == [sh \in SHIFT_INDICES |->
                   CASE sh = 0 -> "Open" [] sh = 1 -> "Mid" [] sh = 2 -> "Close"
                     [] sh = 3 -> "PkLnch" [] sh = 4 -> "PkDin"]

SHIFT_NAMES_MAP == [n \in {"Opening", "Middle", "Closing", "Peak Lunch", "Peak Dinner"} |->
                       CASE n = "Opening" -> 0 [] n = "Middle" -> 1 [] n = "Closing" -> 2
                         [] n = "Peak Lunch" -> 3 [] n = "Peak Dinner" -> 4]

PREF_MAP == [n \in {"Opening", "Middle", "Closing", "Peak_Lunch", "Peak_Dinner"} |->
                CASE n = "Opening" -> 0 [] n = "Middle" -> 1 [] n = "Closing" -> 2
                  [] n = "Peak_Lunch" -> 3 [] n = "Peak_Dinner" -> 4]

-----------------------------------------------------------------------------
(* The calendar: datetime, timedelta and strftime on the days used *)

WeekdayNames == <<"Monday", "Tuesday", "Wednesday", "Thursday", "Friday", "Saturday",
                  "Sunday">>

WeekdayAbbr == <<"Mon", "Tue", "Wed", "Thu", "Fri", "Sat", "Sun">>

\* date.weekday() of day number n: Monday is 0; 2026-02-01 is a Sunday
Weekday(n) == (n + 6) % 7

\* February 2026 has 28 days
MonthOf(n) == IF n < 28 THEN 2 ELSE 3

DayOfMonth(n) == IF n < 28 THEN n + 1 ELSE n - 27

Pad2(n) == IF n < 10 THEN "0" \o ToString(n) ELSE ToString(n)

\* strftime("%Y-%m-%d")
StrfYmd(n) == "2026-" \o Pad2(MonthOf(n)) \o "-" \o Pad2(DayOfMonth(n))

\* strftime("%A")
StrfA(n) == WeekdayNames[Weekday(n) + 1]

\* strftime("%a %d")
StrfAd(n) == WeekdayAbbr[Weekday(n) + 1] \o " " \o Pad2(DayOfMonth(n))

Days == 0 .. num_days - 1

\* lines 127-138: the dictionary keyed by date string
date_to_day_idx ==
    [str \in {StrfYmd(start_date + d) : d \in Days} |->
        CHOOSE d \in Days : StrfYmd(start_date + d) = str /\
                            \A e \in Days : StrfYmd(start_date + e) = str => e <= d]

\* the day index is stored under the weekday name instead of being appended
weekday_to_day_indices_overwritten ==
    [w \in {WeekdayNames[k] : k \in 1 .. 7} |->
        LET ds == {d \in Days : StrfA(start_date + d) = w}
        IN {d \in ds : \A e \in ds : e <= d}]

\* lines 128-138: the day indices appended under each weekday name
weekday_to_day_indices ==
    [w \in {WeekdayNames[k] : k \in 1 .. 7} |->
        {d \in Days : StrfA(start_date + d) = w}]

-----------------------------------------------------------------------------
(* Staff *)

N == Len(staff_list)

StaffIdx == 1 .. N

\* line 121
manager_ids == {i \in StaffIdx : staff_list[i].role \in {"Manager", "General Manager"}}

\* line 150: the first record of staff_list with that name, 0 when there is none
StaffObj(s_name) ==
    IF \E i \in StaffIdx : staff_list[i].name = s_name
    THEN CHOOSE i \in StaffIdx : /\ staff_list[i].name = s_name
                                 /\ \A j \in StaffIdx : staff_list[j].name = s_name => i <= j
    ELSE 0

-----------------------------------------------------------------------------
(* Sums *)

RECURSIVE SumSeq(_)
SumSeq(s) == IF s = <<>> THEN 0 ELSE Head(s) + SumSeq(Tail(s))

\* the scaled hours of one cell: sum over sh of variable * SHIFT_HOURS_SCALED[sh]
CellScaled(c) == SumSeq([k \in 1 .. 5 |-> IF (k - 1) \in c THEN SHIFT_HOURS_SCALED[k - 1] ELSE 0])

\* the number of employees of column col (a prefix of staff_list) whose variable sh is 1
CountShift(col, sh) == Cardinality({i \in 1 .. Len(col) : sh \in col[i]})

-----------------------------------------------------------------------------
(* User requests, lines 147-192 *)

NoRules == [off |-> {}, on |-> {}]

RECURSIVE Joined(_)
\* the string whose split(" | ") gives the pieces val
Joined(val) == IF Len(val) = 1 THEN val[1] ELSE val[1] \o " | " \o Joined(Tail(val))

\* lines 159-162
OffSpecificDate(s_id, val) ==
    IF Joined(val) \in DOMAIN date_to_day_idx
    THEN [off |-> {<<s_id, date_to_day_idx[Joined(val)]>>}, on |-> {}]
    ELSE NoRules

\* lines 165-168
OffRecurringDay(s_id, val) ==
    IF Joined(val) \in DOMAIN weekday_to_day_indices
    THEN [off |-> {<<s_id, d>> : d \in weekday_to_day_indices[Joined(val)]}, on |-> {}]
    ELSE NoRules

\* the request is read and no rule is added
WorkSpecificShiftDropped(s_id, val) == NoRules

\* the first two pieces are taken, whatever follows them
WorkSpecificShiftLoose(s_id, val) ==
    IF Len(val) < 2 THEN NoRules
    ELSE IF val[1] \in DOMAIN date_to_day_idx /\ val[2] \in DOMAIN SHIFT_NAMES_MAP
         THEN [off |-> {}, on |-> {<<s_id, date_to_day_idx[val[1]], SHIFT_NAMES_MAP[val[2]]>>}]
         ELSE NoRules

\* lines 171-180; unpacking anything but two pieces raises ValueError, which is passed
WorkSpecificShift(s_id, val) ==
    IF Len(val) # 2 THEN NoRules
    ELSE IF val[1] \in DOMAIN date_to_day_idx /\ val[2] \in DOMAIN SHIFT_NAMES_MAP
         THEN [off |-> {}, on |-> {<<s_id, date_to_day_idx[val[1]], SHIFT_NAMES_MAP[val[2]]>>}]
         ELSE NoRules

\* lines 183-192
WorkRecurringShift(s_id, val) ==
    IF Len(val) # 2 THEN NoRules
    ELSE IF val[1] \in DOMAIN weekday_to_day_indices /\ val[2] \in DOMAIN SHIFT_NAMES_MAP
         THEN [off |-> {},
               on |-> {<<s_id, d, SHIFT_NAMES_MAP[val[2]]>> : d \in weekday_to_day_indices[val[1]]}]
         ELSE NoRules

\* one iteration of the loop at line 147: the rules request req adds to the model
CompiledOf(req) ==
    LET s_id == StaffObj(req.staff_name) IN
    IF s_id = 0 THEN NoRules
    ELSE CASE req.request_type = "OFF_SPECIFIC_DATE" -> OffSpecificDate(s_id, req.value)
           [] req.request_type = "OFF_RECURRING_DAY" -> OffRecurringDay(s_id, req.value)
           [] req.request_type = "WORK_SPECIFIC_SHIFT" -> WorkSpecificShift(s_id, req.value)
           [] req.request_type = "WORK_RECURRING_SHIFT" -> WorkRecurringShift(s_id, req.value)
           [] OTHER -> NoRules

RECURSIVE CompileAll(_)
\* the rules the whole loop adds for the request list reqs
CompileAll(reqs) ==
    IF reqs = <<>> THEN NoRules
    ELSE LET h == CompiledOf(Head(reqs))
             t == CompileAll(Tail(reqs))
         IN [off |-> h.off \cup t.off, on |-> h.on \cup t.on]

-----------------------------------------------------------------------------
(* Hard constraints, lines 196-244.  A column col is one day of a          *)
(* valuation: col[i] is the set of shifts sh whose variable                *)
(* shifts[(i, d, sh)] is 1.                                                *)

OpeningCount == 3

MiddleCount == 2

\* the closing count looked up by the weekday of day d, not by d % 7
ClosingCountByWeekday(d) == closing_shift_counts[Weekday(start_date + d) + 1]

\* line 200
ClosingCount(d) == closing_shift_counts[(d % 7) + 1]

\* lines 198-200
ShiftCounts(d, col) ==
    /\ CountShift(col, 0) = OpeningCount
    /\ CountShift(col, 1) = MiddleCount
    /\ CountShift(col, 2) = ClosingCount(d)

PeakMinimum == 5

\* the sum of the variables of the shifts of window over all staff
WindowStaff(col, window) == SumSeq([i \in 1 .. Len(col) |-> Cardinality(col[i] \cap window)])

\* lines 203-207
PeakCoverage(col) ==
    /\ WindowStaff(col, {0, 1, 3}) >= PeakMinimum
    /\ WindowStaff(col, {1, 2, 4}) >= PeakMinimum

\* lines 210-211
ManagerCoverage(col) ==
    /\ Cardinality({m \in manager_ids : 0 \in col[m]}) >= 1
    /\ Cardinality({m \in manager_ids : 2 \in col[m]}) >= 1

\* line 214
DailyBudgetVal(d) == daily_budgets[(d % 7) + 1]

\* lines 215-220, on the employees of col (a prefix of staff_list)
DailyCostScaled(col) ==
    SumSeq([i \in 1 .. Len(col) |->
               IF staff_list[i].role # "General Manager" THEN CellScaled(col[i]) ELSE 0])

\* line 221
DailyBudget(d, col) == DailyCostScaled(col) <= IntTimes10(DailyBudgetVal(d))

\* lines 226-229
FlexEligibility(i, c) == staff_list[i].flexible_hours \/ c \cap FLEX_SHIFTS = {}

\* the loop over s_ids starts one employee late
OneShiftPerDaySkipsFirst(i, c) == i = 1 \/ Cardinality(c) <= 1

\* lines 232-233
OneShiftPerDay(i, c) == Cardinality(c) <= 1

\* lines 236-239, over the days of v
TotalHoursScaled(i, v) == SumSeq([k \in 1 .. Len(v) |-> CellScaled(v[k][i])])

\* line 240
MaxWeeklyHours(i, v) == TotalHoursScaled(i, v) <= IntTimes10(staff_list[i].max_hours)

\* range(num_days - 2): the last pair of days is left out
ClopeningDaysShort == 0 .. num_days - 3

\* line 243: range(num_days - 1)
ClopeningDays == 0 .. num_days - 2

\* line 244, for the days d whose pair d, d + 1 lies in v
Clopening(i, v) ==
    \A d \in ClopeningDays : d + 2 <= Len(v) => ~ (2 \in v[d + 1][i] /\ 0 \in v[d + 2][i])

\* lines 162, 168: the sum of the day's variables is 0
RequestedOff(i, d, c, rules) == <<i, d>> \in rules.off => c = {}

\* lines 178, 190: the variable is 1
RequestedOn(i, d, c, rules) == \A sh \in SHIFT_INDICES : <<i, d, sh>> \in rules.on => sh \in c

\* every constraint of the model on valuation v (one column per day of the period)
Satisfies(v, rules) ==
    /\ Len(v) = num_days
    /\ \A d \in Days :
          /\ ShiftCounts(d, v[d + 1])
          /\ PeakCoverage(v[d + 1])
          /\ ManagerCoverage(v[d + 1])
          /\ DailyBudget(d, v[d + 1])
          /\ \A i \in StaffIdx :
                /\ FlexEligibility(i, v[d + 1][i])
                /\ OneShiftPerDay(i, v[d + 1][i])
                /\ RequestedOff(i, d, v[d + 1][i], rules)
                /\ RequestedOn(i, d, v[d + 1][i], rules)
    /\ \A i \in StaffIdx : MaxWeeklyHours(i, v) /\ Clopening(i, v)

-----------------------------------------------------------------------------
(* The backend's search space.  The valuations that satisfy the model are  *)
(* built employee by employee and day by day; a partial valuation is       *)
(* dropped as soon as a constraint can no longer be met (a sum of          *)
(* variables already above its bound), which drops no satisfying           *)
(* valuation.                                                              *)

CellOptions(i, d, rules) ==
    {c \in SUBSET SHIFT_INDICES : /\ FlexEligibility(i, c)
                                  /\ OneShiftPerDay(i, c)
                                  /\ RequestedOff(i, d, c, rules)
                                  /\ RequestedOn(i, d, c, rules)}

\* what employee i can still add to the sums of the day: to Opening, Middle,
\* Closing, Peak Lunch and Peak Dinner, and to all five together
CellReach(i, d, rules) ==
    LET opts == CellOptions(i, d, rules)
        most(S) == IF opts = {} THEN 0
                   ELSE LET sizes == {Cardinality(c \cap S) : c \in opts}
                        IN CHOOSE x \in sizes : \A y \in sizes : y <= x
    IN <<most({0}), most({1}), most({2}), most({3}), most({4}), most(SHIFT_INDICES)>>

RECURSIVE Reach(_, _, _)
\* Reach(d, k, rules)[j]: what employees k + j - 1 .. N together can still add
Reach(d, k, rules) ==
    IF k > N THEN << <<0, 0, 0, 0, 0, 0>> >>
    ELSE LET rest == Reach(d, k + 1, rules)
             mine == CellReach(k, d, rules)
         IN << [x \in 1 .. 6 |-> mine[x] + rest[1][x]] >> \o rest

AtLeast0(x) == IF x < 0 THEN 0 ELSE x

\* column prefix q can still reach the counts of lines 198-200 and, with them, the
\* peak coverage of lines 203-207, and keeps the budget
ColumnOpen(d, q, reach) ==
    LET left == reach[Len(q) + 1]
        needO == OpeningCount - CountShift(q, 0)
        needM == MiddleCount - CountShift(q, 1)
        needC == ClosingCount(d) - CountShift(q, 2)
        needL == AtLeast0(PeakMinimum - OpeningCount - MiddleCount - CountShift(q, 3))
        needD == AtLeast0(PeakMinimum - MiddleCount - ClosingCount(d) - CountShift(q, 4))
    IN /\ needO >= 0 /\ needO <= left[1]
       /\ needM >= 0 /\ needM <= left[2]
       /\ needC >= 0 /\ needC <= left[3]
       /\ needL <= left[4]
       /\ needD <= left[5]
       /\ needO + needM + needC + needL + needD <= left[6]
       /\ DailyBudget(d, q)

RECURSIVE PartialColumns(_, _, _, _)
PartialColumns(d, k, rules, reach) ==
    IF k = 0 THEN {<<>>}
    ELSE {q \in {Append(p, c) : p \in PartialColumns(d, k - 1, rules, reach),
                                c \in CellOptions(k, d, rules)} : ColumnOpen(d, q, reach)}

DayColumns(d, rules) ==
    {col \in PartialColumns(d, N, rules, Reach(d, 1, rules)) :
        ShiftCounts(d, col) /\ PeakCoverage(col) /\ ManagerCoverage(col)}

RECURSIVE PartialValuations(_, _)
PartialValuations(n, rules) ==
    IF n = 0 THEN {<<>>}
    ELSE {q \in {Append(p, col) : p \in PartialValuations(n - 1, rules),
                                  col \in DayColumns(n - 1, rules)} :
             \A i \in StaffIdx : MaxWeeklyHours(i, q) /\ Clopening(i, q)}

\* the valuations CP-SAT may return for the model built with rules
Solutions(rules) == {v \in PartialValuations(num_days, rules) : Satisfies(v, rules)}

-----------------------------------------------------------------------------
(* Objective, lines 247-260 *)

\* lines 247-250
ObjHours(v) == SumSeq([k \in 1 .. Len(v) |->
                   SumSeq([i \in 1 .. N |-> CellScaled(v[k][i])])])

\* line 258, for one entry p_str of an employee's preferred_shifts
PrefDays(i, p_str, v) ==
    IF p_str \in DOMAIN PREF_MAP
    THEN Cardinality({k \in 1 .. Len(v) : PREF_MAP[p_str] \in v[k][i]})
    ELSE 0

\* lines 252-258
ObjPrefs(v) ==
    SumSeq([i \in 1 .. N |->
        SumSeq([j \in 1 .. Len(staff_list[i].preferred_shifts) |->
                   PrefDays(i, staff_list[i].preferred_shifts[j], v)])])

PrefWeight == 20

\* line 260
Objective(v) == ObjHours(v) + ObjPrefs(v) * PrefWeight

-----------------------------------------------------------------------------
(* Extraction, lines 267-310 *)

\* lines 272-276
day_headers == [d \in Days |-> StrfAd(start_date + d)]

\* lines 282-287: the first shift whose variable is true, and the break
FirstShift(c) == CHOOSE sh \in c : \A other \in c : sh <= other

CellVal(c) == IF c = {} THEN "-" ELSE SHIFT_CODES[FirstShift(c)]

CellHours(c) == IF c = {} THEN 0 ELSE SHIFT_HOURS[FirstShift(c) + 1]

\* the key written last wins: row[day_headers[d]] = ...
LastDay(h) == CHOOSE d \in Days : /\ day_headers[d] = h
                                  /\ \A e \in Days : day_headers[e] = h => e <= d

Headers == {day_headers[d] : d \in Days}

\* lines 278-290
StaffRow(i, v) ==
    [Staff |-> <<staff_list[i].name, staff_list[i].role>>,
     cells |-> [h \in Headers |-> CellVal(v[LastDay(h) + 1][i])],
     TotalHours |-> SumSeq([k \in 1 .. Len(v) |-> CellHours(v[k][i])])]

\* lines 296-301: no break here, every true variable adds its hours
DayTotal(d, v) ==
    SumSeq([i \in 1 .. N |->
        IF staff_list[i].role = "General Manager" THEN 0
        ELSE SumSeq([k \in 1 .. 5 |-> IF (k - 1) \in v[d + 1][i] THEN SHIFT_HOURS[k] ELSE 0])])

\* lines 293-305
SummaryRow(v) ==
    [Staff |-> <<"DAILY TOTAL (Hrs) [Excl. GM]", "">>,
     cells |-> [h \in Headers |-> <<DayTotal(LastDay(h), v), daily_budgets[(LastDay(h) % 7) + 1]>>],
     TotalHours |-> SumSeq([k \in 1 .. Len(v) |-> DayTotal(k - 1, v)])]

\* lines 268-308
Schedule(v) ==
    [kind |-> "schedule",
     rows |-> [i \in 1 .. N |-> StaffRow(i, v)],
     summary |-> SummaryRow(v),
     score |-> Objective(v)]

\* line 310
ReturnNone == [kind |-> "none", score |-> 0]

-----------------------------------------------------------------------------
(* The arguments of a call *)

\* h hours, in hundredths of an hour
Hours(h) == h * 100

Emp(name, role, type, max_hours, flexible_hours, preferred_shifts) ==
    [name |-> name, role |-> role, type |-> type, max_hours |-> max_hours,
     flexible_hours |-> flexible_hours, preferred_shifts |-> preferred_shifts]

Req(staff_name, request_type, val) ==
    [staff_name |-> staff_name, request_type |-> request_type, value |-> val]

\* the seed records of init_db, lines 49-73
GeneralManager(name) == Emp(name, "General Manager", "Full Time", Hours(40), FALSE, <<"Opening", "Middle">>)

Manager(name) == Emp(name, "Manager", "Full Time", Hours(40), FALSE, <<"Opening", "Closing">>)

FullTime(name) == Emp(name, "Staff", "Full Time", Hours(40), FALSE, <<"Middle", "Closing">>)

PartTime(name) == Emp(name, "Staff", "Part Time", Hours(20), TRUE, <<"Peak_Lunch", "Peak_Dinner", "Closing">>)

Roster8 == <<GeneralManager("Daniel"), Manager("Pavan"), FullTime("Eddy"), FullTime("Hein"),
             FullTime("Sancia"), FullTime("Liban"), PartTime("Htet"), PartTime("Naing")>>

Roster9 == Roster8 \o <<FullTime("Omya")>>

\* five employees, one Manager, nobody flexible
Roster5 == <<Manager("Pavan"), FullTime("Eddy"), FullTime("Hein"), FullTime("Sancia"),
             FullTime("Liban")>>

\* Roster8 with preference lists as the staff editor lets them be written: an entry
\* twice, the entries in another order, an entry that is no key of PREF_MAP
RosterPrefs ==
    [Roster8 EXCEPT ![3].preferred_shifts = <<"Opening", "Opening">>,
                    ![4].preferred_shifts = <<"Closing", "Middle">>,
                    ![7].preferred_shifts = <<"Peak Dinner", "Peak_Dinner">>]

\* the roster with max_hours h for everybody
WithMaxHours(roster, h) == [i \in 1 .. Len(roster) |-> [roster[i] EXCEPT !.max_hours = h]]

AllWeek(x) == <<x, x, x, x, x, x, x>>

\* the day number of a date of February or March 2026
DayNumber(month, dom) == IF month = 2 THEN dom - 1 ELSE dom + 27

\* x on the k-th weekday entry (1 is the first), y on the others
OneDay(k, x, y) == [j \in 1 .. 7 |-> IF j = k THEN x ELSE y]

Monday2Feb == DayNumber(2, 2)

Tuesday3Feb == DayNumber(2, 3)

Saturday7Feb == DayNumber(2, 7)

Sunday1Feb == DayNumber(2, 1)

\* a standing rule: name works shift on every weekday but the one named skip
Standing(name, shift, skip) ==
    LET days == SelectSeq(WeekdayNames, LAMBDA w : w # skip)
    IN [k \in 1 .. Len(days) |-> Req(name, "WORK_RECURRING_SHIFT", <<days[k], shift>>)]

\* requests that add a rule when their date is in the period
ShortRequests ==
    { <<>>,
      <<Req("Eddy", "WORK_SPECIFIC_SHIFT", <<"2026-02-03", "Opening">>)>>,
      <<Req("Daniel", "WORK_SPECIFIC_SHIFT", <<"2026-02-03", "Closing">>)>>,
      <<Req("Eddy", "WORK_SPECIFIC_SHIFT", <<"2026-02-03", "Peak Lunch">>)>>,
      <<Req("Htet", "WORK_SPECIFIC_SHIFT", <<"2026-02-03", "Peak Dinner">>),
        Req("Htet", "OFF_SPECIFIC_DATE", <<"2026-02-03">>)>>,
      <<Req("Eddy", "WORK_RECURRING_SHIFT", <<"Tuesday", "Middle">>)>> }

\* requests the loop is to ignore, each followed by one it is not
InertRequests ==
    { <<Req("Nobody", "WORK_SPECIFIC_SHIFT", <<"2026-02-03", "Closing">>),
        Req("Eddy", "WORK_SPECIFIC_SHIFT", <<"2026-02-03">>),
        Req("Eddy", "WORK_SPECIFIC_SHIFT", <<"2026-02-03", "Closing", "Opening">>),
        Req("Eddy", "WORK_SPECIFIC_SHIFT", <<"2026-02-03", "Peak_Lunch">>),
        Req("Eddy", "WORK_SPECIFIC_SHIFT", <<"2026-02-03", "Opening">>)>>,
      <<Req("Eddy", "OFF_RECURRING_DAY", <<"Funday">>),
        Req("Eddy", "WORK_RECURRING_SHIFT", <<"Tuesday">>),
        Req("Eddy", "WORK_RECURRING_SHIFT", <<"Tuesday", "Closing", "x">>),
        Req("Eddy", "WORK_RECURRING_SHIFT", <<"Tuesday", "closing">>),
        Req("Eddy", "DAY_OFF", <<"2026-02-03">>),
        Req("Daniel", "WORK_RECURRING_SHIFT", <<"Tuesday", "Opening">>)>>,
      <<Req("Eddy", "OFF_SPECIFIC_DATE", <<"2026-03-20">>),
        Req("Eddy", "OFF_SPECIFIC_DATE", <<"03/02/2026">>),
        Req("Eddy", "WORK_SPECIFIC_SHIFT", <<"2026-01-30", "Closing">>),
        Req("Eddy", "OFF_SPECIFIC_DATE", <<"2026-02-03", "Opening">>),
        Req("Liban", "WORK_SPECIFIC_SHIFT", <<"2026-02-02", "Middle">>)>> }

\* requests for days off, which need a ninth employee to be met
OffRequests ==
    { <<Req("Liban", "OFF_SPECIFIC_DATE", <<"2026-02-03">>)>>,
      <<Req("Liban", "OFF_RECURRING_DAY", <<"Tuesday">>)>>,
      <<Req("Omya", "OFF_RECURRING_DAY", <<"Monday">>),
        Req("Omya", "WORK_SPECIFIC_SHIFT", <<"2026-02-03", "Middle">>)>>,
      <<Req("Omya", "OFF_SPECIFIC_DATE", <<"2026-02-03">>),
        Req("Omya", "WORK_SPECIFIC_SHIFT", <<"2026-02-03", "Middle">>)>> }

\* the standing rules of a long rota: the openers and the middle shift are fixed
StandingRules ==
    Standing("Eddy", "Opening", "") \o Standing("Hein", "Opening", "")
        \o Standing("Sancia", "Middle", "") \o Standing("Liban", "Middle", "Wednesday")

LongRequests ==
    { StandingRules,
      StandingRules \o <<Req("Omya", "OFF_RECURRING_DAY", <<"Monday">>)>>,
      StandingRules \o <<Req("Omya", "OFF_RECURRING_DAY", <<"Saturday">>)>> }

MaxShortDays == 2

LongDays == 8

MonthDays == 29

TightBudget == Hours(47) + 50

OddBudget == Hours(47) + 55

WideBudget == Hours(60)

FullBudget == Hours(100)

LongHours == Hours(80)

MonthHours == Hours(250)

Args(staff, days, closing, budgets, start, requests) ==
    [staff |-> staff, days |-> days, closing |-> closing, budgets |-> budgets,
     start |-> start, requests |-> requests]

\* the eight of Roster8, one or a few days, every start and budget
ShortCalls ==
    {Args(Roster8, days, AllWeek(1), budgets, start, requests) :
        days \in 1 .. MaxShortDays,
        budgets \in {AllWeek(WideBudget), OneDay(2, TightBudget, WideBudget),
                     OneDay(1, OddBudget, WideBudget)},
        start \in {Monday2Feb, Tuesday3Feb},
        requests \in ShortRequests \cup InertRequests}

\* one day with another closing count
ClosingCalls ==
    {Args(Roster8, 1, closing, AllWeek(WideBudget), start, <<>>) :
        closing \in {OneDay(1, 3, 1), OneDay(2, 3, 1), OneDay(1, 2, 1), AllWeek(4)},
        start \in {Monday2Feb, Tuesday3Feb}}
      \cup {Args(Roster8, 2, OneDay(2, 4, 1), AllWeek(WideBudget), Monday2Feb, <<>>)}

NineCalls ==
    {Args(Roster9, 1, AllWeek(1), AllWeek(WideBudget), start, requests) :
        start \in {Monday2Feb, Tuesday3Feb}, requests \in OffRequests}

SmallCalls ==
    {Args(Roster5, days, AllWeek(3), AllWeek(FullBudget), Monday2Feb, <<>>) : days \in 1 .. 2}

PrefsCalls ==
    {Args(RosterPrefs, 1, AllWeek(1), AllWeek(WideBudget), Monday2Feb, <<>>)}

LongCalls ==
    {Args(WithMaxHours(Roster9, LongHours), LongDays, OneDay(1, 2, 1), AllWeek(WideBudget),
          start, requests) :
        start \in {Monday2Feb, Saturday7Feb}, requests \in LongRequests}

MonthCalls ==
    {Args(WithMaxHours(Roster9, MonthHours), MonthDays, AllWeek(1), AllWeek(WideBudget),
          Sunday1Feb, StandingRules \o <<Req("Liban", "WORK_RECURRING_SHIFT", <<"Wednesday", "Middle">>)>>)}

Calls == ShortCalls \cup ClosingCalls \cup NineCalls \cup SmallCalls \cup PrefsCalls
            \cup LongCalls \cup MonthCalls

-----------------------------------------------------------------------------
(* solve_Rota *)

Call(staff, days, closing, budgets, start, requests) ==
    /\ staff_list = staff
    /\ num_days = days
    /\ closing_shift_counts = closing
    /\ daily_budgets = budgets
    /\ start_date = start
    /\ requests_list = requests
    /\ pc = "requests"
    /\ req_i = 1
    /\ forceOff = {}
    /\ forceOn = {}
    /\ status = "NONE"
    /\ value = <<>>
    /\ result = [kind |-> "pending", score |-> 0]

Init ==
    \E a \in Calls : Call(a.staff, a.days, a.closing, a.budgets, a.start, a.requests)

\* one iteration of the loop at line 147
CompileRequest ==
    /\ pc = "requests"
    /\ req_i <= Len(requests_list)
    /\ LET c == CompiledOf(requests_list[req_i]) IN
          /\ forceOff' = forceOff \cup c.off
          /\ forceOn' = forceOn \cup c.on
    /\ req_i' = req_i + 1
    /\ UNCHANGED <<inputs, pc, status, value, result>>

\* the valuations of greatest objective among sols
Optimal(sols) ==
    LET scored == {<<Objective(v), v>> : v \in sols}
        best == CHOOSE o \in {p[1] : p \in scored} : \A p \in scored : p[1] <= o
    IN {p[2] : p \in {x \in scored : x[1] = best}}

\* what solver.Solve may answer when sols are the valuations that satisfy the model
Outcomes(sols) ==
    {[status |-> "FEASIBLE", value |-> v] : v \in sols}
        \cup {[status |-> "OPTIMAL", value |-> v] : v \in Optimal(sols)}
        \cup (IF sols = {} THEN {[status |-> "INFEASIBLE", value |-> <<>>]} ELSE {})
        \cup {[status |-> "UNKNOWN", value |-> <<>>]}

\* lines 194-265: the model is complete and the backend answers.  OPTIMAL comes
\* with a valuation of greatest objective, FEASIBLE with any satisfying valuation
\* (the time bound ended the search), INFEASIBLE only when there is none, UNKNOWN
\* when the time bound ends the search before anything is known.
Solve ==
    /\ pc = "requests"
    /\ req_i > Len(requests_list)
    /\ \E out \in Outcomes(Solutions([off |-> forceOff, on |-> forceOn])) :
          /\ status' = out.status
          /\ value' = out.value
    /\ pc' = "solved"
    /\ UNCHANGED <<inputs, req_i, forceOff, forceOn, result>>

\* lines 267-308
ReturnSchedule ==
    /\ pc = "solved"
    /\ status \in {"OPTIMAL", "FEASIBLE"}
    /\ result' = Schedule(value)
    /\ pc' = "done"
    /\ UNCHANGED <<inputs, req_i, forceOff, forceOn, status, value>>

\* lines 309-310
ReturnNothing ==
    /\ pc = "solved"
    /\ status \notin {"OPTIMAL", "FEASIBLE"}
    /\ result' = ReturnNone
    /\ pc' = "done"
    /\ UNCHANGED <<inputs, req_i, forceOff, forceOn, status, value>>

Next == CompileRequest \/ Solve \/ ReturnSchedule \/ ReturnNothing

Spec == Init /\ [][Next]_vars

-----------------------------------------------------------------------------
(* What the properties below speak of *)

Returned == result.kind = "schedule"

RequestsCompiled == pc # "requests" \/ req_i > Len(requests_list)

\* the employees whose variable of shift sh on day d is true in the valuation
Assigned(d, sh) == {i \in StaffIdx : sh \in value[d + 1][i]}

ShiftNameList == <<"Opening", "Middle", "Closing", "Peak Lunch", "Peak Dinner">>

\* the position, counted from 0, of string x in the sequence names
IndexIn(names, x) == (CHOOSE k \in 1 .. Len(names) : names[k] = x) - 1

IsIn(names, x) == \E k \in 1 .. Len(names) : names[k] = x

\* the days of the period whose calendar date prints as the date string str
DaysOfDate(str) == {d \in Days : StrfYmd(start_date + d) = str}

\* the days of the period that fall on the weekday named w
DaysOfWeekday(w) == {d \in Days : Weekday(start_date + d) = IndexIn(WeekdayNames, w)}

Resolves(req) == \E i \in StaffIdx : staff_list[i].name = req.staff_name

-----------------------------------------------------------------------------
\* C1: in every returned schedule, on every day d of the period, exactly 3
\* employees are assigned Opening, exactly 2 Middle and exactly
\* closing_shift_counts[d mod 7] Closing.
C1_ShiftCounts ==
    Returned =>
        \A d \in Days : /\ Cardinality(Assigned(d, 0)) = 3
                        /\ Cardinality(Assigned(d, 1)) = 2
                        /\ Cardinality(Assigned(d, 2)) = closing_shift_counts[(d % 7) + 1]

\* a returned schedule of more than 7 days whose day 7 takes the closing count of
\* entry 0, which differs from the next entry's
C1_Witness ==
    /\ Returned
    /\ num_days > 7
    /\ closing_shift_counts[1] # closing_shift_counts[2]
    /\ Cardinality(Assigned(7, 2)) = closing_shift_counts[1]
    /\ Cardinality(Assigned(1, 2)) = closing_shift_counts[2]

-----------------------------------------------------------------------------
\* a WORK_SPECIFIC_SHIFT request that names an employee of the list, a date of the
\* period and one of the five shift names
GoodWorkSpecific(req) ==
    /\ req.request_type = "WORK_SPECIFIC_SHIFT"
    /\ Resolves(req)
    /\ Len(req.value) = 2
    /\ DaysOfDate(req.value[1]) # {}
    /\ IsIn(ShiftNameList, req.value[2])

\* an OFF request of the list that covers employee e on day d
OffCovers(e, d) ==
    \E k \in 1 .. Len(requests_list) :
        LET o == requests_list[k] IN
        /\ Resolves(o) /\ StaffObj(o.staff_name) = e
        /\ Len(o.value) = 1
        /\ \/ o.request_type = "OFF_SPECIFIC_DATE" /\ d \in DaysOfDate(o.value[1])
           \/ /\ o.request_type = "OFF_RECURRING_DAY"
              /\ IsIn(WeekdayNames, o.value[1])
              /\ d \in DaysOfWeekday(o.value[1])

\* C2: a returned schedule assigns the employee of every such request exactly the
\* requested shift on the requested date; no schedule is returned when the
\* employee is not flexible and the shift is a Peak shift, when the employee's
\* max hours are below the shift's duration, or when an OFF request covers the
\* same employee and day.
C2_WorkSpecificShift ==
    Returned =>
        \A k \in 1 .. Len(requests_list) :
            LET req == requests_list[k] IN
            GoodWorkSpecific(req) =>
                LET e == StaffObj(req.staff_name)
                    sh == IndexIn(ShiftNameList, req.value[2])
                IN \A d \in DaysOfDate(req.value[1]) :
                      /\ value[d + 1][e] = {sh}
                      /\ sh \in {3, 4} => staff_list[e].flexible_hours
                      /\ SHIFT_HOURS[sh + 1] <= staff_list[e].max_hours
                      /\ ~ OffCovers(e, d)

\* a returned schedule that honours such a request
C2_Witness ==
    /\ Returned
    /\ \E k \in 1 .. Len(requests_list) :
          /\ GoodWorkSpecific(requests_list[k])
          /\ \E d \in DaysOfDate(requests_list[k].value[1]) :
                value[d + 1][StaffObj(requests_list[k].staff_name)]
                    = {IndexIn(ShiftNameList, requests_list[k].value[2])}

-----------------------------------------------------------------------------
\* every day of the period has at least as many employees as slots to fill
EnoughStaff == \A d \in Days : N >= 3 + 2 + closing_shift_counts[(d % 7) + 1]

\* C3: when the staff list has fewer employees than 3 + 2 +
\* closing_shift_counts[d mod 7] for some day d of the period (five employees and
\* a closing headcount of 3, for one), the backend finds no valuation and
\* solve_Rota returns (None, 0).
C3_TooFewStaff ==
    ~ EnoughStaff =>
        /\ status \notin {"OPTIMAL", "FEASIBLE"}
        /\ ~ Returned
        /\ pc = "done" => result = [kind |-> "none", score |-> 0]

\* the baseline: five employees, one of them a Manager, nobody flexible, one day,
\* a closing headcount of 3, a budget above the hours of all eight slots: infeasible
C3_Witness ==
    /\ pc = "done"
    /\ N = 5 /\ num_days = 1
    /\ Cardinality(manager_ids) = 1
    /\ \A i \in StaffIdx : ~ staff_list[i].flexible_hours
    /\ closing_shift_counts[1] = 3
    /\ daily_budgets[1] >= 3 * 750 + 2 * 850 + 3 * 800
    /\ status = "INFEASIBLE"
    /\ result = [kind |-> "none", score |-> 0]

-----------------------------------------------------------------------------
RequestTypes == {"OFF_SPECIFIC_DATE", "OFF_RECURRING_DAY", "WORK_SPECIFIC_SHIFT",
                 "WORK_RECURRING_SHIFT"}

\* the request names nobody of the list, or its value cannot be parsed, or its date
\* lies outside the period
Inert(req) ==
    \/ ~ Resolves(req)
    \/ req.request_type \notin RequestTypes
    \/ /\ req.request_type \in {"WORK_SPECIFIC_SHIFT", "WORK_RECURRING_SHIFT"}
       /\ \/ Len(req.value) # 2
          \/ ~ IsIn(ShiftNameList, req.value[2])
    \/ /\ req.request_type = "WORK_RECURRING_SHIFT"
       /\ ~ IsIn(WeekdayNames, req.value[1])
    \/ /\ req.request_type = "OFF_RECURRING_DAY"
       /\ (Len(req.value) # 1 \/ ~ IsIn(WeekdayNames, req.value[1]))
    \/ /\ req.request_type = "WORK_SPECIFIC_SHIFT"
       /\ DaysOfDate(req.value[1]) = {}
    \/ /\ req.request_type = "OFF_SPECIFIC_DATE"
       /\ (Len(req.value) # 1 \/ DaysOfDate(req.value[1]) = {})

\* the list reqs without its k-th request
Without(reqs, k) == SubSeq(reqs, 1, k - 1) \o SubSeq(reqs, k + 1, Len(reqs))

\* C4: once the request loop has run, the rules it has added to the model are the
\* rules it adds for the list with any one inert request removed (so the model
\* accepts the same assignments with and without that request), and the loop
\* never stops on such a request.
C4_InertRequests ==
    /\ RequestsCompiled =>
          \A k \in 1 .. Len(requests_list) :
              Inert(requests_list[k]) =>
                  [off |-> forceOff, on |-> forceOn] = CompileAll(Without(requests_list, k))
    /\ (pc = "requests" /\ req_i <= Len(requests_list)) => ENABLED CompileRequest

\* a schedule returned for a list that holds an inert request of each kind: a date
\* outside the period, a value that does not parse
C4_Witness ==
    /\ Returned
    /\ \E k \in 1 .. Len(requests_list) :
          /\ requests_list[k].request_type = "OFF_SPECIFIC_DATE"
          /\ Resolves(requests_list[k])
          /\ Inert(requests_list[k])
    /\ \E k \in 1 .. Len(requests_list) :
          /\ requests_list[k].request_type = "WORK_SPECIFIC_SHIFT"
          /\ Inert(requests_list[k])
    /\ \E k \in 1 .. Len(requests_list) : ~ Inert(requests_list[k])
    /\ forceOn # {}

-----------------------------------------------------------------------------
\* the rules the request loop has added to the model
Rules == [off |-> forceOff, on |-> forceOn]

\* C5: the output is all-or-nothing.  For every backend status solve_Rota returns
\* either (None, 0), or a complete schedule: one row for every employee of the
\* staff list holding one cell for every day of the period, plus one summary row;
\* a schedule is returned if and only if the status is OPTIMAL or FEASIBLE, and
\* the valuation it shows satisfies every hard constraint of the model.
C5_AllOrNothing ==
    pc = "done" =>
        \/ /\ status \notin {"OPTIMAL", "FEASIBLE"}
           /\ result = [kind |-> "none", score |-> 0]
        \/ /\ status \in {"OPTIMAL", "FEASIBLE"}
           /\ result.kind = "schedule"
           /\ DOMAIN result.rows = 1 .. N
           /\ \A i \in 1 .. N :
                 /\ result.rows[i].Staff = <<staff_list[i].name, staff_list[i].role>>
                 /\ Cardinality(DOMAIN result.rows[i].cells) = num_days
           /\ Cardinality(DOMAIN result.summary.cells) = num_days
           /\ Satisfies(value, Rules)

-----------------------------------------------------------------------------
\* the hours, in hundredths, of the employees other than the General Manager who
\* are assigned on day d
NonGMHours(d) ==
    SumSeq([i \in 1 .. N |->
        IF staff_list[i].role = "General Manager" THEN 0
        ELSE SumSeq([k \in 1 .. 5 |-> IF (k - 1) \in value[d + 1][i] THEN SHIFT_HOURS[k] ELSE 0])])

\* C6: in every returned schedule, for every start date and every day d of the
\* period, the hours of the employees other than the General Manager assigned on d
\* are at most the budget of the weekday day d falls on, daily_budgets being in
\* Monday..Sunday order.
C6_BudgetOfWeekday ==
    Returned =>
        \A d \in Days : NonGMHours(d) <= daily_budgets[Weekday(start_date + d) + 1]

-----------------------------------------------------------------------------
\* C7: in every returned schedule no employee is assigned Closing on a day d of
\* 0 .. num_days - 2 and Opening on day d + 1, the pair of days 6 and 7 included.
C7_Clopening ==
    Returned =>
        \A i \in StaffIdx : \A d \in 0 .. num_days - 2 :
            ~ (i \in Assigned(d, 2) /\ i \in Assigned(d + 1, 0))

\* a returned schedule of more than 7 days in which somebody closes on day 6 and
\* works on day 7, while another employee who did not close on day 6 opens on day 7
C7_Witness ==
    /\ Returned
    /\ num_days > 7
    /\ \E i \in StaffIdx : /\ i \in Assigned(6, 2)
                           /\ value[8][i] # {}
                           /\ i \notin Assigned(7, 0)
    /\ \E j \in StaffIdx : j \notin Assigned(6, 2) /\ j \in Assigned(7, 0)

-----------------------------------------------------------------------------
\* an OFF_RECURRING_DAY request that names an employee of the list and a weekday
GoodOffRecurring(req) ==
    /\ req.request_type = "OFF_RECURRING_DAY"
    /\ Resolves(req)
    /\ Len(req.value) = 1
    /\ IsIn(WeekdayNames, req.value[1])

\* C8: the rules such a request adds are: its employee off on every day of the
\* period that falls on its weekday, and nothing else (no other day is forced off,
\* and a weekday with no day in the period adds no rule); in every returned
\* schedule the employee has no shift on any of those days, on both of them when
\* the weekday falls twice in the period.
C8_OffRecurringDay ==
    \A k \in 1 .. Len(requests_list) :
        LET req == requests_list[k] IN
        GoodOffRecurring(req) =>
            LET e == StaffObj(req.staff_name)
                ds == DaysOfWeekday(req.value[1])
            IN /\ CompiledOf(req) = [off |-> {<<e, d>> : d \in ds}, on |-> {}]
               /\ RequestsCompiled => \A d \in ds : <<e, d>> \in forceOff
               /\ Returned => \A d \in ds : value[d + 1][e] = {}

\* a returned schedule of more than 7 days whose request names a weekday that falls
\* twice in the period: the employee is off on both days and works on another day
C8_Witness ==
    /\ Returned
    /\ num_days > 7
    /\ \E k \in 1 .. Len(requests_list) :
          LET req == requests_list[k] IN
          /\ GoodOffRecurring(req)
          /\ Cardinality(DaysOfWeekday(req.value[1])) = 2
          /\ \A d \in DaysOfWeekday(req.value[1]) : value[d + 1][StaffObj(req.staff_name)] = {}
          /\ \E d \in Days \ DaysOfWeekday(req.value[1]) :
                value[d + 1][StaffObj(req.staff_name)] # {}

-----------------------------------------------------------------------------
\* C9: solve_Rota never reports a backend fault (status UNKNOWN: the time bound
\* ended the search before anything was known) by the value it returns for an
\* infeasible model, which is (None, 0).
C9_InfeasibleDistinct ==
    (pc = "done" /\ status = "UNKNOWN") => result # [kind |-> "none", score |-> 0]

-----------------------------------------------------------------------------
\* the shift types that employee i prefers, whatever the order and the repeats of
\* the list
PreferredShiftTypes(i) ==
    {PREF_MAP[staff_list[i].preferred_shifts[j]] :
        j \in {x \in 1 .. Len(staff_list[i].preferred_shifts) :
                  staff_list[i].preferred_shifts[x] \in DOMAIN PREF_MAP}}

\* the assigned (employee, day, shift) triples of the valuation
Triples == {t \in StaffIdx \X Days \X SHIFT_INDICES : t[3] \in value[t[2] + 1][t[1]]}

\* C10: the score returned with a schedule is the sum over the assigned triples of
\* the shift's duration scaled by 10, plus 20 for each assigned triple whose shift
\* type is among the employee's preferred shift types, each triple counted once.
C10_Objective ==
    Returned =>
        result.score =
            SumSeq([i \in 1 .. N |->
                SumSeq([d \in 1 .. num_days |->
                    SumSeq([k \in 1 .. 5 |->
                        IF <<i, d - 1, k - 1>> \in Triples
                        THEN <<75, 85, 80, 40, 40>>[k] ELSE 0])])])
            + 20 * Cardinality({t \in Triples : t[3] \in PreferredShiftTypes(t[1])})

-----------------------------------------------------------------------------
\* the duration, in hundredths of an hour, of the shift a cell shows
ShownHours(code) ==
    CASE code = "Open" -> 750 [] code = "Mid" -> 850 [] code = "Close" -> 800
      [] code = "PkLnch" -> 400 [] code = "PkDin" -> 400 [] OTHER -> 0

RECURSIVE SumOver(_, _)
\* the sum of f[x] over the x of S
SumOver(f, S) ==
    IF S = {} THEN 0 ELSE LET x == CHOOSE y \in S : TRUE IN f[x] + SumOver(f, S \ {x})

\* the rows of the employees other than the General Manager
NonGMRows == {i \in StaffIdx : staff_list[i].role # "General Manager"}

\* C11: in every returned schedule each employee's cell of day d shows the one
\* shift whose variable is true on d, or "-" when none is; each employee's Total
\* Hours is the sum of the durations of the shifts the row shows; each day's
\* figure in the summary row is the sum of the durations of the shifts shown that
\* day in the rows of the employees other than the General Manager; the summary
\* row's Total Hours is the sum of the Total Hours of those rows.
C11_Extraction ==
    Returned =>
        /\ \A i \in StaffIdx : \A d \in Days :
              /\ Cardinality(value[d + 1][i]) <= 1
              /\ day_headers[d] \in DOMAIN result.rows[i].cells
              /\ result.rows[i].cells[day_headers[d]] =
                    (IF value[d + 1][i] = {} THEN "-"
                     ELSE SHIFT_CODES[CHOOSE sh \in value[d + 1][i] : TRUE])
        /\ \A i \in StaffIdx :
              result.rows[i].TotalHours =
                  SumOver([h \in DOMAIN result.rows[i].cells |->
                              ShownHours(result.rows[i].cells[h])],
                          DOMAIN result.rows[i].cells)
        /\ \A h \in DOMAIN result.summary.cells :
              result.summary.cells[h][1] =
                  SumOver([i \in NonGMRows |-> ShownHours(result.rows[i].cells[h])], NonGMRows)
        /\ result.summary.TotalHours =
              SumOver([i \in NonGMRows |-> result.rows[i].TotalHours], NonGMRows)

\* C11 for the periods in which no two days print the same header
C11_DistinctHeaders ==
    Cardinality(Headers) = num_days => C11_Extraction

=============================================================================
